---- MODULE Spec2Model ----
(***************************************************************************)
(* Order blocks and break-of-structure lines: a model of                   *)
(* OrderBlockVisualizer (src/project.py).  The price series is loaded by   *)
(* the constructor; calculate_structure_low, process_order_blocks (one     *)
(* step per bar of its loop) and calculate_pdh_pdl then run in the order   *)
(* of the driver at the end of the file.  Bar i of the source (0-based) is *)
(* element i+1 of the sequences below.                                     *)
(***************************************************************************)
EXTENDS Integers, Sequences, FiniteSets, TLC

\* ------------------------------------------------------------------ bounds
MaxPrice == 4
MaxN == 3
MaxRange == 2
MaxDeepN == 7

\* ------------------------------------------------------- program constants
\* pandas marks a window without enough history as NaN; prices are positive,
\* so a value outside the price range stands for it.
NaN == -1
InitStructureLow == 1000000
RecencyLimit == 1000

RED_BOX == "rgba(255,0,0,0.9)"
GREEN_BOX == "rgba(0,255,0,0.9)"
RED == "red"
GREEN == "green"

\* ------------------------------------------------------------------ inputs
Prices == 1..MaxPrice

Candle(o, h, l, c) == [open |-> o, high |-> h, low |-> l, close |-> c]

Flat(p) == Candle(p, p, p, p)

Up(l, h) == Candle(l, h, l, h)

Down(l, h) == Candle(h, h, l, l)

\* Well-formed candles (low <= open, close <= high) one price step tall:
\* unchanged, bullish and bearish ones.
Candles ==
    {Flat(p) : p \in Prices}
        \cup {Up(p, p + 1) : p \in 1..(MaxPrice - 1)}
        \cup {Down(p, p + 1) : p \in 1..(MaxPrice - 1)}

\* A small alphabet for the longer series: a bullish swing, a bearish bar
\* that undercuts it and a bar that closes above both.
DeepCandles == {Up(2, 3), Down(1, 2), Flat(4)}

\* A candle whose high lies below its low.
Inverted(p) == Candle(p + 1, p, p + 1, p + 1)

MalformedCandles == {Inverted(p) : p \in 1..(MaxPrice - 1)}

\* The series that hold at least one such candle.
MalformedSeries ==
    {s \in UNION {[1..k -> Candles \cup MalformedCandles] : k \in 1..MaxN} :
        \E j \in 1..Len(s) : s[j].high < s[j].low}

Series ==
    UNION {[1..n -> Candles] : n \in 0..MaxN}
        \cup UNION {[1..n -> DeepCandles] : n \in (MaxN + 1)..MaxDeepN}

\* ------------------------------------------------------------ pure helpers
Max(a, b) == IF a >= b THEN a ELSE b

Min(a, b) == IF a <= b THEN a ELSE b

SetMin(S) == CHOOSE x \in S : \A y \in S : x <= y

SetMax(S) == CHOOSE x \in S : \A y \in S : x >= y

\* Comparisons of floats: false as soon as one side is NaN.
Less_orEqual(a, b) == a # NaN /\ b # NaN /\ a <= b

Less(a, b) == a # NaN /\ b # NaN /\ a < b

Greater(a, b) == a # NaN /\ b # NaN /\ a > b

\* Series.rolling(window=w).min(): position j (0-based) holds the minimum of
\* the w values ending at j, NaN while fewer than w values are available.
RollingMin(s, w) ==
    [j \in 1..Len(s) |->
        IF j < w THEN NaN ELSE SetMin({s[k] : k \in (j - w + 1)..j})]

RollingMax(s, w) ==
    [j \in 1..Len(s) |->
        IF j < w THEN NaN ELSE SetMax({s[k] : k \in (j - w + 1)..j})]

\* Series.shift(1): every value moves one position later, NaN enters first.
Shift1(s) == [j \in 1..Len(s) |-> IF j = 1 THEN NaN ELSE s[j - 1]]

RECURSIVE RemoveFirst_closes(_, _)
RemoveFirst_closes(s, x) ==
    IF s = <<>> THEN <<>>
    ELSE IF Head(s) = x THEN <<[x EXCEPT !.right = x.left]>> \o Tail(s)
    ELSE <<Head(s)>> \o RemoveFirst_closes(Tail(s), x)

\* list.remove(x): drops the first element equal to x.
RECURSIVE RemoveFirst(_, _)
RemoveFirst(s, x) ==
    IF s = <<>> THEN <<>>
    ELSE IF Head(s) = x THEN Tail(s)
    ELSE <<Head(s)>> \o RemoveFirst(Tail(s), x)

\* ------------------------------------------------------------------- state
VARIABLES
    data,               \* the loaded OHLC series, one record per bar
    range_len,          \* window of the structural low
    pc,                 \* position in the driver: new, ready, done, error
    error,              \* the exception that ended the run, or "none"
    i,                  \* loop variable of process_order_blocks: the next bar
    runs,               \* calls of process_order_blocks: 1 for the driver's
    structureLow, structureLowIndex,
    lastDownIndex, lastDown, lastLow,
    lastUpIndex, lastUp, lastUpLow, lastUpOpen, lastHigh,
    lastLongIndex, lastShortIndex,
    short_boxes, long_boxes, bos_lines,
    pdh, pdl,
    shortLog,           \* every short box appended, with the bar that did it
    longLog,            \* every long box appended, with the bar that did it
    scanned,            \* the short list the last bar's removal loop started on
    firstRun            \* the three outputs as the first call left them

vars ==
    <<data, range_len, pc, error, i, runs, structureLow, structureLowIndex,
      lastDownIndex, lastDown, lastLow, lastUpIndex, lastUp, lastUpLow,
      lastUpOpen, lastHigh, lastLongIndex, lastShortIndex, short_boxes,
      long_boxes, bos_lines, pdh, pdl, shortLog, longLog, scanned, firstRun>>

tracker ==
    <<lastDownIndex, lastDown, lastLow, lastUpIndex, lastUp, lastUpLow,
      lastUpOpen, lastHigh, lastLongIndex, lastShortIndex>>

outputs == <<short_boxes, long_boxes, bos_lines>>

history == <<shortLog, longLog, scanned, firstRun>>

n == Len(data)

\* Column c of the frame at bar b (0-based, as in the source).
Open(b) == data[b + 1].open

High(b) == data[b + 1].high

Low(b) == data[b + 1].low

Close(b) == data[b + 1].close

Lows == [j \in 1..n |-> data[j].low]

Highs == [j \in 1..n |-> data[j].high]

NoError == [type |-> "none", at |-> "none"]

Raised(type, at) == [type |-> type, at |-> at]

\* __init__ and _init_variables
Constructed(loaded) ==
    /\ data \in loaded
    /\ range_len \in 1..MaxRange
    /\ pc = "new"
    /\ error = NoError
    /\ i = 0
    /\ runs = 1
    /\ structureLow = InitStructureLow
    /\ structureLowIndex = 0
    /\ lastDownIndex = 0
    /\ lastDown = 0
    /\ lastLow = 0
    /\ lastUpIndex = 0
    /\ lastUp = 0
    /\ lastUpLow = 0
    /\ lastUpOpen = 0
    /\ lastHigh = 0
    /\ lastLongIndex = 0
    /\ lastShortIndex = 0
    /\ short_boxes = <<>>
    /\ long_boxes = <<>>
    /\ bos_lines = <<>>
    /\ pdh = "unset"
    /\ pdl = "unset"
    /\ shortLog = <<>>
    /\ longLog = <<>>
    /\ scanned = <<>>
    /\ firstRun = <<>>

Init == Constructed(Series)

\* -------------------------------------------------------- structure extractor
\* The loop of structureLowIndexPointer over bars 1..range_len-1: reading
\* data['Low'][k] beyond the series raises IndexError.
RECURSIVE PointerLoop(_, _, _)
PointerLoop(k, minValue, minIndex) ==
    IF k >= range_len THEN [raised |-> FALSE, minIndex |-> minIndex]
    ELSE IF k >= n THEN [raised |-> TRUE, minIndex |-> minIndex]
    ELSE IF Less(Low(k), minValue[k + 1])
        THEN PointerLoop(k + 1, [minValue EXCEPT ![k + 1] = Low(k)],
                         [minIndex EXCEPT ![k + 1] = k])
        ELSE PointerLoop(k + 1, minValue, minIndex)

structureLowIndexPointer ==
    PointerLoop(1, Shift1(RollingMax(Highs, range_len)),
                [j \in 1..n |-> j - 1])

StructureLowSeries_unshifted == RollingMin(Lows, range_len)

StructureLowSeries == Shift1(RollingMin(Lows, range_len))

calculate_structure_low ==
    /\ pc = "new"
    /\ structureLow' = StructureLowSeries
    /\ IF structureLowIndexPointer.raised
        THEN /\ pc' = "error"
             /\ error' = Raised("IndexError", "structureLowIndexPointer")
             /\ UNCHANGED structureLowIndex
        ELSE /\ pc' = "ready"
             /\ structureLowIndex' = structureLowIndexPointer.minIndex
             /\ UNCHANGED error
    /\ UNCHANGED <<data, range_len, i, runs, tracker, outputs, pdh, pdl, history>>

\* ---------------------------------------------------------- order-block engine
add_order_block(index, top, bottom, color) ==
    [left |-> index, top |-> top, bottom |-> bottom, right |-> n - 1,
     color |-> color]

\* Step 1 of bar b: the bearish structure break.
BreakFires(b) == Less(Low(b), structureLow[b + 1])

RecentUp(b) == b - lastUpIndex < RecencyLimit

NewShortBox_afterUpdate ==
    add_order_block(IF Close(i) > Open(i) THEN i ELSE lastUpIndex,
                    Max(IF Close(i) > Open(i) THEN High(i) ELSE lastHigh,
                        High(i)),
                    IF Close(i) > Open(i) THEN Low(i) ELSE lastUpLow,
                    RED_BOX)

NewShortBox == add_order_block(lastUpIndex, lastHigh, lastUpLow, RED_BOX)

NewBearishBos(b) ==
    add_order_block(structureLowIndex[b + 1], structureLow[b + 1],
                    structureLow[b + 1], RED)

EmitsShort_crossing(b) ==
    BreakFires(b) /\ RecentUp(b) /\ ~(b >= 1 /\ BreakFires(b - 1))

EmitsShort(b) == BreakFires(b) /\ RecentUp(b)

ShortAfterBreak(b) ==
    IF EmitsShort(b) THEN Append(short_boxes, NewShortBox) ELSE short_boxes

BosAfterBreak_silent(b) == bos_lines

BosAfterBreak_assigned(b) ==
    IF EmitsShort(b) THEN <<NewBearishBos(b)>> ELSE bos_lines

BosAfterBreak(b) ==
    IF EmitsShort(b) THEN Append(bos_lines, NewBearishBos(b)) ELSE bos_lines

\* Step 2 of bar b: `for box in self.short_boxes` with remove() inside.  The
\* list iterator keeps a position k into the list it walks, so the element
\* that slides into a removed element's place is not visited.
Invalidated(b, box) == Greater(Close(b), box.top)

LongGuard_ungated(b, last) == b - lastDownIndex < RecencyLimit

LongGuard(b, last) == b - lastDownIndex < RecencyLimit /\ b > last

NewLongBox == add_order_block(lastDownIndex, lastDown, lastLow, GREEN_BOX)

NewBullishBos_block(box) ==
    add_order_block(box.left, box.top, box.bottom, GREEN)

NewBullishBos(box) == add_order_block(box.left, box.top, box.top, GREEN)

NextPosition(k) == k + 1

RECURSIVE ShortLoop(_, _, _)
ShortLoop(st, k, b) ==
    IF k >= Len(st.short) THEN st
    ELSE LET box == st.short[k + 1]
         IN IF Invalidated(b, box)
             THEN LET rest == RemoveFirst(st.short, box)
                  IN IF LongGuard(b, st.lastLongIndex)
                      THEN ShortLoop(
                               [short |-> rest,
                                long |-> Append(st.long, NewLongBox),
                                bos |-> Append(st.bos, NewBullishBos(box)),
                                lastLongIndex |-> b,
                                made |-> Append(st.made, NewLongBox)],
                               NextPosition(k), b)
                      ELSE ShortLoop([st EXCEPT !.short = rest],
                                     NextPosition(k), b)
             ELSE ShortLoop(st, NextPosition(k), b)

AfterShortScan(b) ==
    LET st == [short |-> ShortAfterBreak(b), long |-> long_boxes,
               bos |-> BosAfterBreak(b), lastLongIndex |-> lastLongIndex,
               made |-> <<>>]
    IN IF Len(st.short) > 0 THEN ShortLoop(st, 0, b) ELSE st

\* Step 3 of bar b: `for box in self.long_boxes` with remove() inside.
Broken(b, box) == Less(Close(b), box.bottom)

RECURSIVE LongLoop(_, _, _)
LongLoop(long, k, b) ==
    IF k >= Len(long) THEN long
    ELSE LET box == long[k + 1]
         IN IF Broken(b, box)
             THEN LongLoop(RemoveFirst(long, box), NextPosition(k), b)
             ELSE LongLoop(long, NextPosition(k), b)

AfterLongScan(long, b) == IF Len(long) > 0 THEN LongLoop(long, 0, b) ELSE long

\* Step 4 of bar b: the candle tracker.
Bearish(b) == Close(b) < Open(b)

Bullish_orEqual(b) == Close(b) >= Open(b)

Bullish(b) == Close(b) > Open(b)

NextLastHigh_frozen(b) == IF Bullish(b) THEN High(b) ELSE lastHigh

NextLastHigh_min(b) ==
    Min(IF Bullish(b) THEN High(b) ELSE lastHigh, High(b))

NextLastHigh(b) == Max(IF Bullish(b) THEN High(b) ELSE lastHigh, High(b))

NextLastLow_max(b) == Max(IF Bearish(b) THEN Low(b) ELSE lastLow, Low(b))

NextLastLow_running(b) == Min(lastLow, Low(b))

NextLastLow(b) == Min(IF Bearish(b) THEN Low(b) ELSE lastLow, Low(b))

NextLastUpLow(b) == IF Bullish(b) THEN Low(b) ELSE lastUpLow

NextLastUpIndex(b) == IF Bullish(b) THEN b ELSE lastUpIndex

NextLastDown(b) == IF Bearish(b) THEN High(b) ELSE lastDown

NextLastDownIndex(b) == IF Bearish(b) THEN b ELSE lastDownIndex

\* One iteration of the loop of process_order_blocks, for bar i.
ProcessBar ==
    /\ pc = "ready"
    /\ i < n
    /\ LET st == AfterShortScan(i)
       IN /\ short_boxes' = st.short
          /\ long_boxes' = AfterLongScan(st.long, i)
          /\ bos_lines' = st.bos
          /\ lastLongIndex' = st.lastLongIndex
          /\ longLog' = longLog \o [j \in 1..Len(st.made) |->
                                        [bar |-> i, box |-> st.made[j]]]
    /\ lastShortIndex' = IF BreakFires(i) THEN lastUpIndex ELSE lastShortIndex
    /\ shortLog' = IF EmitsShort(i)
                    THEN Append(shortLog, [bar |-> i, box |-> NewShortBox])
                    ELSE shortLog
    /\ scanned' = ShortAfterBreak(i)
    /\ lastDown' = NextLastDown(i)
    /\ lastDownIndex' = NextLastDownIndex(i)
    /\ lastLow' = NextLastLow(i)
    /\ lastUp' = IF Bullish(i) THEN Close(i) ELSE lastUp
    /\ lastUpIndex' = NextLastUpIndex(i)
    /\ lastUpOpen' = IF Bullish(i) THEN Open(i) ELSE lastUpOpen
    /\ lastUpLow' = NextLastUpLow(i)
    /\ lastHigh' = NextLastHigh(i)
    /\ i' = i + 1
    /\ UNCHANGED <<data, range_len, pc, error, runs, structureLow,
                   structureLowIndex, pdh, pdl, firstRun>>

\* ---------------------------------------------------- reference-level calculator
\* A negative index -k counts from the end of the series.
FromEnd_last(k) == n - 1

FromEnd(k) == n - k

\* data['High'][-2] raises IndexError on a series of fewer than two bars.
calculate_pdh_pdl ==
    /\ pc = "ready"
    /\ i = n
    /\ IF n >= 2
        THEN /\ pdh' = High(FromEnd(2))
             /\ pdl' = Low(FromEnd(2))
             /\ pc' = "done"
             /\ UNCHANGED error
        ELSE /\ pc' = "error"
             /\ error' = Raised("IndexError", "calculate_pdh_pdl")
             /\ UNCHANGED <<pdh, pdl>>
    /\ UNCHANGED <<data, range_len, i, runs, structureLow, structureLowIndex,
                   tracker, outputs, history>>

\* A second call of process_order_blocks on the same object: nothing is
\* reset, the loop starts again at bar 0.
process_order_blocks_again ==
    /\ pc = "done"
    /\ runs = 1
    /\ runs' = 2
    /\ i' = 0
    /\ pc' = "ready"
    /\ firstRun' = <<short_boxes, long_boxes, bos_lines>>
    /\ UNCHANGED <<data, range_len, error, structureLow, structureLowIndex,
                   tracker, outputs, pdh, pdl, shortLog, longLog, scanned>>

\* ----------------------------------------------------------- specifications
Next == calculate_structure_low \/ ProcessBar \/ calculate_pdh_pdl

Spec == Init /\ [][Next]_vars

NextAgain == Next \/ process_order_blocks_again

SpecAgain == Init /\ [][NextAgain]_vars

\* The driver on a series with a malformed candle.
InitMalformed == Constructed(MalformedSeries)

SpecMalformed == InitMalformed /\ [][Next]_vars

\* ------------------------------------------------------------------ claims
\* At least one bar has been processed; bar i-1 is the last one finished.
BarDone == pc # "new" /\ i >= 1

\* C1: once process_order_blocks has finished a bar, no active short zone
\* has the bar's close above its top and no active long zone has the bar's
\* close below its bottom.
C1_NoBrokenZoneSurvives ==
    BarDone =>
        /\ \A k \in 1..Len(short_boxes) :
               ~Greater(Close(i - 1), short_boxes[k].top)
        /\ \A k \in 1..Len(long_boxes) :
               ~Less(Close(i - 1), long_boxes[k].bottom)

\* C2: every short order block ever appended has top >= bottom, also those
\* appended before any bullish candle was seen.
C2_ShortTopAboveBottom ==
    \A k \in 1..Len(shortLog) : shortLog[k].box.top >= shortLog[k].box.bottom

BullishBefore(b) == \E j \in 0..(b - 1) : Bullish(j)

C2_Witness ==
    /\ \E k \in 1..Len(shortLog) : ~BullishBefore(shortLog[k].bar)
    /\ \E k \in 1..Len(shortLog) :
           /\ BullishBefore(shortLog[k].bar)
           /\ shortLog[k].box.top > shortLog[k].box.bottom

\* C3: after calculate_structure_low, structureLow is unavailable for every
\* bar before range_len and is, for every later bar b, the least low of the
\* bars b-range_len .. b-1, the bar b itself left out.
C3_StructureLowIsTrailingMin ==
    pc # "new" =>
        \A b \in 0..(n - 1) :
            IF b < range_len
                THEN structureLow[b + 1] = NaN
                ELSE /\ \E k \in (b - range_len)..(b - 1) :
                            structureLow[b + 1] = Low(k)
                     /\ \A k \in (b - range_len)..(b - 1) :
                            structureLow[b + 1] <= Low(k)

C3_Witness ==
    /\ pc = "ready"
    /\ range_len >= 2
    /\ \E b \in range_len..(n - 1) :
           /\ Low(b) < structureLow[b + 1]
           /\ Low(b - 1) # Low(b - 2)

\* C4 as claimed: a short zone anchored at a bullish bar k has that bar's
\* high as its top and that bar's low as its bottom, whatever bars lie
\* between k and the breaching bar.
C4_TopIsAnchorHigh ==
    \A k \in 1..Len(shortLog) :
        LET e == shortLog[k]
        IN Bullish(e.box.left) =>
               /\ e.box.top = High(e.box.left)
               /\ e.box.bottom = Low(e.box.left)

\* C4 as amended: a short zone anchored at a bullish bar k and emitted at
\* bar b has the highest high of the bars k .. b-1 as its top and the low of
\* bar k as its bottom.
C4_TopIsRunningHigh ==
    \A k \in 1..Len(shortLog) :
        LET e == shortLog[k]
        IN Bullish(e.box.left) =>
               /\ e.box.left < e.bar
               /\ e.box.top = SetMax({High(j) : j \in e.box.left..(e.bar - 1)})
               /\ e.box.bottom = Low(e.box.left)

C4_Witness ==
    \E k \in 1..Len(shortLog) :
        /\ Bullish(shortLog[k].box.left)
        /\ shortLog[k].box.top > High(shortLog[k].box.left)

\* The scan of process_order_blocks has run to its end.
ScanFinished == pc # "new" /\ error.at # "structureLowIndexPointer" /\ i = n

\* Bar k is the last bullish candle of the series.
LastBull(k) == Bullish(k) /\ \A j \in (k + 1)..(n - 1) : ~Bullish(j)

\* The bars after k whose low undercuts the structural low.
BreachesAfter(k) == {b \in (k + 1)..(n - 1) : Less(Low(b), structureLow[b + 1])}

Consecutive(S) ==
    \A a \in S : \A c \in S : \A m \in a..c : m \in S

ShortsAfter(k) == {j \in 1..Len(shortLog) : shortLog[j].bar > k}

BearishBosAfter(k) ==
    {j \in 1..Len(bos_lines) : bos_lines[j].color = RED /\ bos_lines[j].left > k}

Count(s, x) == Cardinality({k \in 1..Len(s) : s[k] = x})

GreenLines(s) == {k \in 1..Len(s) : s[k].color = GREEN}

\* What C6 promises for a broken short zone z at bar i, S being the short
\* list the removal loop starts on: z leaves the list, one long zone built
\* from the last bearish bar and one BOS line at z's top are appended, and
\* lastLongIndex becomes i.
Flips(z, S) ==
    /\ Count(short_boxes', z) < Count(S, z)
    /\ longLog' = Append(longLog,
                         [bar |-> i,
                          box |-> [left |-> lastDownIndex, top |-> lastDown,
                                   bottom |-> lastLow, right |-> n - 1,
                                   color |-> GREEN_BOX]])
    /\ Len(bos_lines') = Len(bos_lines) + Len(shortLog') - Len(shortLog) + 1
    /\ bos_lines'[Len(bos_lines')] =
           [left |-> z.left, top |-> z.top, bottom |-> z.top,
            right |-> n - 1, color |-> GREEN]
    /\ lastLongIndex' = i

FlipAllowed == i - lastDownIndex < 1000 /\ i > lastLongIndex

\* C6 as claimed: at bar i every active short zone z with close[i] > z.top,
\* while i - lastDownIndex < 1000 and i > lastLongIndex hold, is removed and
\* replaced by a long zone and a BOS line made from z.
C6_EveryBrokenShortFlips ==
    [][ProcessBar =>
          \A k \in 1..Len(short_boxes) :
              (Close(i) > short_boxes[k].top /\ FlipAllowed)
                  => Flips(short_boxes[k], ShortAfterBreak(i))]_vars

\* C6 as amended: the same, for the first zone in list order with
\* close[i] > z.top; the zones before it stay in place.
C6_FirstBrokenShortFlips ==
    [][ProcessBar =>
          LET S == ShortAfterBreak(i)
          IN \A k \in 1..Len(S) :
                 (/\ Close(i) > S[k].top
                  /\ \A j \in 1..(k - 1) : ~(Close(i) > S[j].top)
                  /\ FlipAllowed)
                     => /\ Flips(S[k], S)
                        /\ SubSeq(short_boxes', 1, k - 1) = SubSeq(S, 1, k - 1)]_vars

C6_Witness ==
    /\ BarDone
    /\ \E k \in 1..Len(longLog) : longLog[k].bar = i - 1
    /\ \E j \in 1..Len(scanned) : \E k \in 1..Len(scanned) :
           /\ j < k
           /\ scanned[j] # scanned[k]
           /\ Close(i - 1) > scanned[j].top
           /\ Close(i - 1) > scanned[k].top

\* C7: from one bar to the next lastLongIndex never decreases, and a single
\* bar creates at most one long zone and at most one bullish BOS line, even
\* when it removes several short zones.
C7_OneLongPerBar ==
    [][/\ lastLongIndex' >= lastLongIndex
       /\ Len(longLog') <= Len(longLog) + 1
       /\ Cardinality(GreenLines(bos_lines')) <=
              Cardinality(GreenLines(bos_lines)) + 1]_vars

C7_Witness ==
    /\ BarDone
    /\ Len(scanned) - Len(short_boxes) >= 2
    /\ Cardinality({k \in 1..Len(longLog) : longLog[k].bar = i - 1}) = 1

\* C8: bos_lines is append-only; every step leaves the lines already
\* emitted in place as a prefix of the new sequence.
C8_BosAppendOnly ==
    [][/\ Len(bos_lines') >= Len(bos_lines)
       /\ SubSeq(bos_lines', 1, Len(bos_lines)) = bos_lines]_vars

C8_Witness ==
    /\ \E k \in 1..Len(bos_lines) : bos_lines[k].color = RED
    /\ \E k \in 1..Len(bos_lines) : bos_lines[k].color = GREEN
    /\ Len(bos_lines) >= 3

\* C9: a second run of process_order_blocks over the same series and
\* range_len ends with the short_boxes, long_boxes and bos_lines of the first.
C9_SecondRunSameOutputs ==
    (runs = 2 /\ i = n) => <<short_boxes, long_boxes, bos_lines>> = firstRun

\* C10: a series no longer than range_len gets no structural low, raises no
\* error in the structure extractor or the scan and ends with short_boxes,
\* long_boxes and bos_lines empty.
C10_ShortSeriesQuiet ==
    n <= range_len =>
        /\ error.at # "structureLowIndexPointer"
        /\ pc # "new" => \A b \in 0..(n - 1) : structureLow[b + 1] = NaN
        /\ short_boxes = <<>>
        /\ long_boxes = <<>>
        /\ bos_lines = <<>>

RedLines(s) == {k \in 1..Len(s) : s[k].color = RED}

\* C11: equality never triggers.  A bar whose low equals its structural low
\* emits no short zone and no break line; a short zone whose top equals the
\* bar's close and a long zone whose bottom equals it are not removed.
C11_EqualityNeverTriggers ==
    [][ProcessBar =>
          /\ Low(i) = structureLow[i + 1] =>
                 /\ shortLog' = shortLog
                 /\ Cardinality(RedLines(bos_lines')) =
                        Cardinality(RedLines(bos_lines))
          /\ \A k \in 1..Len(short_boxes) :
                 Close(i) = short_boxes[k].top =>
                     Count(short_boxes', short_boxes[k]) >=
                         Count(short_boxes, short_boxes[k])
          /\ \A k \in 1..Len(long_boxes) :
                 Close(i) = long_boxes[k].bottom =>
                     Count(long_boxes', long_boxes[k]) >=
                         Count(long_boxes, long_boxes[k])]_vars

\* The last bar met its structural low exactly and closed exactly on the
\* bottom of a long zone that is still active, and some bar closed exactly
\* on the top of a short zone that was active then.
C11_Witness ==
    /\ BarDone
    /\ Low(i - 1) = structureLow[i]
    /\ \E k \in 1..Len(long_boxes) :
           /\ Close(i - 1) = long_boxes[k].bottom
           /\ \E j \in 1..Len(longLog) :
                  longLog[j].box = long_boxes[k] /\ longLog[j].bar < i - 1
    /\ \E j \in 1..Len(shortLog) : \E b \in (shortLog[j].bar + 1)..(i - 1) :
           /\ Close(b) = shortLog[j].box.top
           /\ \A c \in shortLog[j].bar..(b - 1) : Close(c) <= shortLog[j].box.top

\* C12: for every bar b >= range_len, structureLowIndex[b] is the earliest
\* bar of the window b-range_len .. b-1 whose low is the least of the window.
C12_IndexOfWindowMin ==
    pc = "ready" =>
        \A b \in range_len..(n - 1) :
            LET k == structureLowIndex[b + 1]
            IN /\ k \in (b - range_len)..(b - 1)
               /\ \A j \in (b - range_len)..(b - 1) : Low(k) <= Low(j)
               /\ \A j \in (b - range_len)..(k - 1) : Low(j) > Low(k)

\* a is b with some elements left out, the others in their order.
RECURSIVE IsSubseq(_, _)
IsSubseq(a, b) ==
    IF a = <<>> THEN TRUE
    ELSE IF b = <<>> THEN FALSE
    ELSE IF Head(a) = Head(b) THEN IsSubseq(Tail(a), Tail(b))
    ELSE IsSubseq(a, Tail(b))

Boxes(log, from) == [j \in 1..(Len(log) - from) |-> log[from + j].box]

\* C13: a zone or BOS line is never changed once created.  After every step
\* each list holds, field for field, zones it held before or zones created
\* by this step, in their order (the BOS lines all of them), and the right
\* edge of every zone and line is the last bar of the series.
C13_ZonesNeverChange ==
    [][/\ IsSubseq(short_boxes', short_boxes \o Boxes(shortLog', Len(shortLog)))
       /\ IsSubseq(long_boxes', long_boxes \o Boxes(longLog', Len(longLog)))
       /\ SubSeq(bos_lines', 1, Len(bos_lines)) = bos_lines
       /\ \A k \in 1..Len(short_boxes') : short_boxes'[k].right = n - 1
       /\ \A k \in 1..Len(long_boxes') : long_boxes'[k].right = n - 1
       /\ \A k \in 1..Len(bos_lines') : bos_lines'[k].right = n - 1]_vars

C13_Witness ==
    /\ BarDone
    /\ Len(shortLog) > Len(short_boxes)
    /\ \E k \in 1..Len(short_boxes) : \E j \in 1..Len(shortLog) :
           shortLog[j].box = short_boxes[k] /\ shortLog[j].bar < i - 2
    /\ \E k \in 1..Len(long_boxes) : \E j \in 1..Len(longLog) :
           longLog[j].box = long_boxes[k] /\ longLog[j].bar < i - 1

\* C14: a series with a malformed candle (high < low) is rejected before the
\* scan starts: nothing is ever emitted for it and the run does not complete
\* normally.
C14_MalformedRejected ==
    (\E j \in 1..n : data[j].high < data[j].low) =>
        /\ shortLog = <<>>
        /\ longLog = <<>>
        /\ bos_lines = <<>>
        /\ pc # "done"

\* C15: for a series of two bars or more calculate_pdh_pdl sets PDH and PDL
\* to the high and the low of the bar before the last, whatever the scan
\* left behind.
C15_PreviousBarLevels ==
    (pc = "done" /\ n >= 2) =>
        /\ pdh = data[n - 1].high
        /\ pdl = data[n - 1].low

C15_Witness ==
    /\ pc = "done"
    /\ n >= 3
    /\ pdh # data[n].high
    /\ pdl # data[n].low
    /\ shortLog # <<>>
    /\ longLog # <<>>

\* C16 as claimed: from one bar to the next lastHigh never decreases and
\* lastLow never increases.
C16_ExtremaNeverReset ==
    [][lastHigh' >= lastHigh /\ lastLow' <= lastLow]_vars

\* C16 as amended: lastHigh never decreases on a bar that is not bullish and
\* lastLow never increases on a bar that is not bearish; a bullish bar sets
\* lastHigh to its own high and a bearish bar sets lastLow to its own low.
C16_ExtremaResetOnlyByTheirCandle ==
    [][ProcessBar =>
          /\ Close(i) > Open(i) => lastHigh' = High(i)
          /\ ~(Close(i) > Open(i)) => lastHigh' >= lastHigh
          /\ Close(i) < Open(i) => lastLow' = Low(i)
          /\ ~(Close(i) < Open(i)) => lastLow' <= lastLow]_vars

\* The last bar is bullish and lowered lastHigh below the high of the bar
\* before it; an earlier bearish bar raised lastLow from its initial 0.
C16_Witness ==
    /\ BarDone
    /\ i >= 2
    /\ Close(i - 1) > Open(i - 1)
    /\ lastHigh < High(i - 2)
    /\ \E b \in 0..(i - 2) : Close(b) < Open(b) /\ Low(b) > 0

\* C17: a bar with close == open leaves lastDownIndex, lastDown, lastUpIndex,
\* lastUp, lastUpOpen and lastUpLow as they were; of the tracker only
\* lastHigh, to max(lastHigh, high), and lastLow, to min(lastLow, low), change.
C17_FlatBarMovesOnlyExtrema ==
    [][(ProcessBar /\ Close(i) = Open(i)) =>
          /\ UNCHANGED <<lastDownIndex, lastDown, lastUpIndex, lastUp,
                         lastUpOpen, lastUpLow>>
          /\ lastHigh' = (IF High(i) > lastHigh THEN High(i) ELSE lastHigh)
          /\ lastLow' = (IF Low(i) < lastLow THEN Low(i) ELSE lastLow)]_vars

\* The last bar is flat and set a new lastHigh; an earlier flat bar
\* undercut the low of the bearish bar right before it.
C17_Witness ==
    /\ BarDone
    /\ i >= 3
    /\ Close(i - 1) = Open(i - 1)
    /\ \A b \in 0..(i - 2) : High(b) < High(i - 1)
    /\ lastHigh = High(i - 1)
    /\ \E b \in 1..(i - 2) :
           /\ Close(b) = Open(b)
           /\ Close(b - 1) < Open(b - 1)
           /\ Low(b) < Low(b - 1)

UpsBefore(b) == {j \in 0..(b - 1) : Close(j) > Open(j)}

DownsBefore(b) == {j \in 0..(b - 1) : Close(j) < Open(j)}

\* What the bars before b alone make of a short zone created at bar b.
ShortFromPast(b) ==
    IF UpsBefore(b) = {}
        THEN [left |-> 0, top |-> SetMax({0} \cup {High(j) : j \in 0..(b - 1)}),
              bottom |-> 0]
        ELSE LET k == SetMax(UpsBefore(b))
             IN [left |-> k, top |-> SetMax({High(j) : j \in k..(b - 1)}),
                 bottom |-> Low(k)]

\* What the bars before b alone make of a long zone created at bar b.
LongFromPast(b) ==
    IF DownsBefore(b) = {}
        THEN [left |-> 0, top |-> 0,
              bottom |-> SetMin({0} \cup {Low(j) : j \in 0..(b - 1)})]
        ELSE LET d == SetMax(DownsBefore(b))
             IN [left |-> d, top |-> High(d),
                 bottom |-> SetMin({Low(j) : j \in d..(b - 1)})]

Edges(box) == [left |-> box.left, top |-> box.top, bottom |-> box.bottom]

\* C18: the tracker is updated after the checks of a bar, so a zone created
\* while bar b is processed starts left of b and has the left edge, top and
\* bottom that the bars before b determine; bar b's own open, high, low and
\* close play no part.
C18_ZonesBuiltFromEarlierBars ==
    /\ \A k \in 1..Len(shortLog) :
           /\ shortLog[k].box.left < shortLog[k].bar
           /\ Edges(shortLog[k].box) = ShortFromPast(shortLog[k].bar)
    /\ \A k \in 1..Len(longLog) :
           /\ longLog[k].box.left < longLog[k].bar
           /\ Edges(longLog[k].box) = LongFromPast(longLog[k].bar)

\* A short zone was created on a bullish bar whose low is not the zone's
\* bottom, and a long zone on a bearish bar.
C18_Witness ==
    /\ \E k \in 1..Len(shortLog) :
           LET b == shortLog[k].bar
           IN Close(b) > Open(b) /\ Low(b) # shortLog[k].box.bottom
    /\ \E k \in 1..Len(longLog) :
           LET b == longLog[k].bar
           IN Close(b) < Open(b) /\ longLog[k].box.left # b

\* C19: on series whose bars all have high >= low, every long zone ever
\* appended has top >= bottom, also when no bearish candle came before it.
C19_LongTopAboveBottom ==
    \A k \in 1..Len(longLog) : longLog[k].box.top >= longLog[k].box.bottom

\* A long zone was created before any bearish candle was seen, from the
\* initial lastDown and lastLow.
C19_Witness ==
    \E k \in 1..Len(longLog) :
        /\ DownsBefore(longLog[k].bar) = {}
        /\ longLog[k].box.top = 0
        /\ longLog[k].box.bottom = 0

ShortsRemoved == Len(shortLog) - Len(short_boxes)

\* C20: after every bar of the scan, bos_lines has one line per short zone
\* ever created plus one per long zone ever created, every BOS line is flat
\* (top = bottom), and no more long zones were created than short zones were
\* removed.
C20_BosCountsZones ==
    /\ Len(bos_lines) = Len(shortLog) + Len(longLog)
    /\ \A k \in 1..Len(bos_lines) : bos_lines[k].top = bos_lines[k].bottom
    /\ Len(longLog) <= ShortsRemoved

\* Two short zones were created, both were removed, and only one removal
\* created a long zone.
C20_Witness ==
    /\ Len(shortLog) >= 2
    /\ Len(longLog) >= 1
    /\ ShortsRemoved > Len(longLog)

====
